---- MODULE Spec2Model ----
(***************************************************************************)
(* Event registration and check-in: the data-access facade DB of db.ts     *)
(* over the four tables users, events, registrations and participants.     *)
(* Every `await supabase...` is one store call and one step of the model;  *)
(* calls of several clients interleave between their store calls.          *)
(* Uninterpreted text columns (name, password, title, venue, ...) are not  *)
(* carried: no operation reads them.                                       *)
(***************************************************************************)
EXTENDS Integers, FiniteSets, Sequences, Bags, TLC

\* ------------------------------------------------------------ bounds ----
MaxEvents == 1      \* events ever created
MaxRegs   == 2      \* registration rows ever inserted
NumProcs  == 2      \* calls that can be in flight together
MaxSeats  == 1      \* maxParticipants of the events created

Procs == 1..NumProcs

\* ------------------------------------------------- values and inputs ----
NoTime == 0                         \* check_in_time is null
NoId   == 0                         \* no row / no id

AdminEmail == "admin@gmail.com"
AdminUniId == "ADMIN-001"

EmailInputs   == {AdminEmail, "s@uni"}
UserIdInputs  == 1..Cardinality(EmailInputs)
EventIdInputs == 0..MaxEvents       \* 0: an id no event has
UniIdInputs   == {AdminUniId, "U-1"}
RoleInputs    == {"student", "organizer"}
StatusInputs  == {"approved", "rejected"}
\* what a caller hands to createUser; the sign-up form carries no status
NewUser(email, uniId, role, status) ==
  [email |-> email, uniId |-> uniId, role |-> role, status |-> status]

\* what a caller hands to createEvent: the organizer, and a status field the
\* parameter type leaves out but an object can still carry
EvtInputs     == [organizerId : UserIdInputs, status : {"pending", "approved"},
                  maxParticipants : {MaxSeats}]
Times         == {1, 2}         \* readings of new Date()

\* mutant: the payload is built without the separator
QrPayload_noColon(eventId, userId) == <<eventId, userId>>

\* `${eventId}:${userId}`
QrPayload(eventId, userId) == <<eventId, ":", userId>>

QrInputs == {QrPayload(e, u) : e \in 1..MaxEvents, u \in UserIdInputs}
              \cup {<<"garbage">>}

VARIABLES
  users,          \* table users
  events,         \* table events
  registrations,  \* table registrations
  participants,   \* table participants, a bag: its id column is never read
  nextId,         \* next id of each table (gen_random_uuid: never reused)
  pc,             \* position of each call in flight
  loc,            \* locals of each call in flight
  ret,            \* the call the step just taken completed, and its result
  hist,           \* per registration id, of the checkInUser calls about it:
                  \* one has ended, how many returned success:true, a store
                  \* call of one has reported an error
  scanner         \* the CheckInScanner of the check-in terminal

vars == <<users, events, registrations, participants, nextId,
          pc, loc, ret, hist, scanner>>

\* ------------------------------------------------------ row mapping ----
mapReg(data) ==
  [_id |-> data.id, userId |-> data.user_id, eventId |-> data.event_id,
   status |-> data.status, qrPayload |-> data.qr_payload,
   checkInTime |-> data.check_in_time]

mapUser(data) ==
  [_id |-> data.id, email |-> data.email, role |-> data.role,
   uniId |-> data.uni_id,
   status |-> IF data.status = "" THEN "approved" ELSE data.status]

mapEvent(data) ==
  [_id |-> data.id, organizerId |-> data.organizer_id, status |-> data.status,
   maxParticipants |-> data.max_participants]

\* ------------------------------------------------- store primitives ----
\* .maybeSingle(): the row when exactly one matches, null when none does,
\* an error (and null data) when several do or the request fails.
MaybeSingle(rows, ok) ==
  IF ~ok THEN [data |-> {}, error |-> TRUE]
  ELSE IF Cardinality(rows) > 1 THEN [data |-> {}, error |-> TRUE]
  ELSE [data |-> rows, error |-> FALSE]

\* .single(): the row when exactly one matches, an error otherwise.
Single(rows, ok) ==
  IF ok /\ Cardinality(rows) = 1
  THEN [data |-> rows, error |-> FALSE]
  ELSE [data |-> {}, error |-> TRUE]

UserIds  == {u.id : u \in users}
EventIds == {e.id : e \in events}
RegIds   == {r.id : r \in registrations}

\* mutant: registrations.event_id carries no foreign key
RegFkOk_usersOnly(userId, eventId) == userId \in UserIds

\* foreign keys of registrations (db.ts 47, 49)
RegFkOk(userId, eventId) == userId \in UserIds /\ eventId \in EventIds

\* foreign keys of participants (db.ts 60-62)
PartFkOk(reg) ==
  reg.id \in RegIds /\ reg.user_id \in UserIds /\ reg.event_id \in EventIds

\* ------------------------------------------------ calls and results ----
NoLoc == [userId |-> NoId, eventId |-> NoId, qrPayload |-> <<>>,
          reg |-> {}, now |-> NoTime, insOk |-> FALSE]

NoRet == [proc |-> NoId, op |-> "none", arg |-> <<>>, outcome |-> "none",
          err |-> FALSE, success |-> FALSE, message |-> "",
          registration |-> {}, rows |-> EmptyBag]

\* the call op(arg) of p returns; err: its last store call reported an error
Returned(p, op, arg, err, success, message, registration) ==
  [proc |-> p, op |-> op, arg |-> arg, outcome |-> "return", err |-> err,
   success |-> success, message |-> message, registration |-> registration,
   rows |-> EmptyBag]

\* the read op(arg) of p returns the list `rows`
Listed(p, op, arg, err, rows) ==
  [NoRet EXCEPT !.proc = p, !.op = op, !.arg = arg, !.outcome = "return",
                !.err = err, !.rows = rows]

\* the call op(arg) of p rejects
Thrown(p, op, arg) ==
  [proc |-> p, op |-> op, arg |-> arg, outcome |-> "throw", err |-> TRUE,
   success |-> FALSE, message |-> "", registration |-> {},
   rows |-> EmptyBag]

NoHist == [done |-> FALSE, oks |-> 0, failed |-> FALSE]

\* CheckInScanner before it is mounted.  open: the terminal is on screen;
\* active, busy, result: its useState values; scanning: a frame callback of
\* the scan loop is scheduled; code: the code processCode was called with
NoScanner == [open |-> FALSE, active |-> FALSE, busy |-> FALSE,
              scanning |-> FALSE, result |-> "none", code |-> <<>>]

\* ------------------------------------------------------------- Init ----
AdminRow == [id |-> 1, email |-> AdminEmail, uni_id |-> AdminUniId,
             role |-> "admin", status |-> "approved"]

Init ==
  /\ users = {AdminRow}
  /\ events = {}
  /\ registrations = {}
  /\ participants = EmptyBag
  /\ nextId = [users |-> 2, events |-> 1, registrations |-> 1]
  /\ pc = [p \in Procs |-> "idle"]
  /\ loc = [p \in Procs |-> NoLoc]
  /\ ret = NoRet
  /\ hist = [i \in 1..MaxRegs |-> NoHist]
  /\ scanner = NoScanner

\* ------------------------------------------------ history bookkeeping ----
\* a checkInUser call about the registrations `ids` ends: with a store call
\* of its own that reported an error (failed), returning success:true (ok)
Ended(h, ids, failed, ok) ==
  [i \in DOMAIN h |->
     IF i \in ids
     THEN [done |-> TRUE,
           oks |-> IF ok THEN h[i].oks + 1 ELSE h[i].oks,
           failed |-> h[i].failed \/ failed]
     ELSE h[i]]

\* a store call of a running checkInUser call about `ids` reported an error
Failed(h, ids, failed) ==
  [i \in DOMAIN h |->
     IF i \in ids /\ failed THEN [h[i] EXCEPT !.failed = TRUE] ELSE h[i]]

\* ------------------------------------------------------------ users ----
\* check (role in ('student', 'organizer', 'admin'))
Roles == {"student", "organizer", "admin"}

\* mutant: the status of the input is stored
InitialStatus_asSupplied(user) == user.status

\* const status = user.role === 'organizer' ? 'pending' : 'approved'
InitialStatus(user) ==
  IF user.role = "organizer" THEN "pending" ELSE "approved"

\* mutant: uni_id carries no unique constraint
UserAccepted_emailOnly(user) ==
  /\ user.role \in Roles
  /\ \A u \in users : u.email # user.email

\* the constraints of the users table on an insert: unique(email),
\* unique(uni_id), check(role)
UserAccepted(user) ==
  /\ user.role \in Roles
  /\ \A u \in users : u.email # user.email /\ u.uni_id # user.uniId

\* the row DB.createUser inserts
UserRow(user) ==
  [id |-> nextId.users, email |-> user.email, uni_id |-> user.uniId,
   role |-> user.role, status |-> InitialStatus(user)]

\* DB.createUser: one insert; unique(email), unique(uni_id), check(role)
createUser(user) ==
  /\ LET row == UserRow(user)
         accepted == UserAccepted(user)
     IN  /\ users' = IF accepted THEN users \cup {row} ELSE users
         /\ nextId' = IF accepted THEN [nextId EXCEPT !.users = @ + 1]
                      ELSE nextId
  /\ ret' = NoRet
  /\ UNCHANGED <<events, registrations, participants, pc, loc, hist, scanner>>

\* DB.updateUserStatus: update users set status where id = userId
updateUserStatus(userId, status) ==
  /\ users' = {IF u.id = userId THEN [u EXCEPT !.status = status] ELSE u
                 : u \in users}
  /\ ret' = NoRet
  /\ UNCHANGED <<events, registrations, participants, nextId, pc, loc, hist,
                 scanner>>

\* ------------------------------------------------------------- init ----
\* the row DB.init inserts
SeedRow(id) == [id |-> id, email |-> AdminEmail, uni_id |-> AdminUniId,
                role |-> "admin", status |-> "approved"]

\* first store call of DB.init: select id ... eq email .maybeSingle(); only
\* `data` is read, the error is dropped; `if (!admin)` goes on to the insert
initCheck(p, ok) ==
  /\ pc[p] = "idle"
  /\ LET admin == MaybeSingle({u \in users : u.email = AdminEmail}, ok).data
     IN  IF admin # {}
         THEN /\ ret' = Returned(p, "init", <<>>, FALSE, FALSE, "", {})
              /\ UNCHANGED pc
         ELSE /\ pc' = [pc EXCEPT ![p] = "init_insert"]
              /\ ret' = NoRet
  /\ UNCHANGED <<users, events, registrations, participants, nextId,
                 loc, hist, scanner>>

\* mutant: the seed is written as an upsert on the email
initInsert_upsert(p, ok) ==
  /\ pc[p] = "init_insert"
  /\ users' = {IF u.email = AdminEmail THEN SeedRow(u.id) ELSE u : u \in users}
  /\ ret' = Returned(p, "init", <<>>, FALSE, FALSE, "", {})
  /\ pc' = [pc EXCEPT ![p] = "idle"]
  /\ UNCHANGED <<events, registrations, participants, nextId, loc, hist, scanner>>

\* mutant: users carries no unique constraint for the seed to run into
initInsert_unchecked(p, ok) ==
  /\ pc[p] = "init_insert"
  /\ users' = users \cup {SeedRow(nextId.users)}
  /\ nextId' = [nextId EXCEPT !.users = @ + 1]
  /\ ret' = Returned(p, "init", <<>>, FALSE, FALSE, "", {})
  /\ pc' = [pc EXCEPT ![p] = "idle"]
  /\ UNCHANGED <<events, registrations, participants, loc, hist, scanner>>

\* second store call of DB.init: insert the admin row; its result is not
\* read; unique(email) and unique(uni_id) refuse a second admin row
initInsert(p, ok) ==
  /\ pc[p] = "init_insert"
  /\ LET accepted ==
           /\ ok
           /\ \A u \in users : u.email # AdminEmail /\ u.uni_id # AdminUniId
     IN  /\ users' = IF accepted THEN users \cup {SeedRow(nextId.users)}
                      ELSE users
         /\ nextId' = IF accepted THEN [nextId EXCEPT !.users = @ + 1]
                      ELSE nextId
         /\ ret' = Returned(p, "init", <<>>, ~accepted, FALSE, "", {})
  /\ pc' = [pc EXCEPT ![p] = "idle"]
  /\ UNCHANGED <<events, registrations, participants, loc, hist, scanner>>

\* ----------------------------------------------------------- events ----
\* mutant: the insert stores the status the caller supplied
createEvent_asSupplied(evt) ==
  /\ nextId.events <= MaxEvents
  /\ evt.organizerId \in UserIds
  /\ events' = events \cup {[id |-> nextId.events,
                             organizer_id |-> evt.organizerId,
                             status |-> evt.status,
                             max_participants |-> evt.maxParticipants]}
  /\ nextId' = [nextId EXCEPT !.events = @ + 1]
  /\ ret' = NoRet
  /\ UNCHANGED <<users, registrations, participants, pc, loc, hist, scanner>>

\* DB.createEvent: one insert; organizer_id references users(id)
createEvent(evt) ==
  /\ nextId.events <= MaxEvents
  /\ LET row == [id |-> nextId.events, organizer_id |-> evt.organizerId,
                 status |-> "pending",
                 max_participants |-> evt.maxParticipants]
         accepted == evt.organizerId \in UserIds
     IN  /\ events' = IF accepted THEN events \cup {row} ELSE events
         /\ nextId' = IF accepted THEN [nextId EXCEPT !.events = @ + 1]
                      ELSE nextId
  /\ ret' = NoRet
  /\ UNCHANGED <<users, registrations, participants, pc, loc, hist, scanner>>

\* DB.updateEventStatus: update events set status where id = eventId
updateEventStatus(eventId, status) ==
  /\ events' = {IF e.id = eventId THEN [e EXCEPT !.status = status] ELSE e
                  : e \in events}
  /\ ret' = NoRet
  /\ UNCHANGED <<users, registrations, participants, nextId, pc, loc, hist,
                 scanner>>

\* registrations.event_id references events(id) on delete cascade
CascadeRegs(eventId) == {r \in registrations : r.event_id = eventId}

\* mutant: the delete of an event takes every participant row with it
CascadeParts_all(eventId) == BagToSet(participants)

\* participants.event_id references events(id) on delete cascade, and
\* participants.registration_id references registrations(id) on delete cascade
CascadeParts(eventId) ==
  {x \in BagToSet(participants) :
     \/ x.event_id = eventId
     \/ x.registration_id \in {r.id : r \in CascadeRegs(eventId)}}

\* DB.deleteEvent: delete from events where id = eventId; registrations and
\* participants go with it
deleteEvent(eventId) ==
  /\ events' = {e \in events : e.id # eventId}
  /\ registrations' = registrations \ CascadeRegs(eventId)
  /\ participants' =
       [x \in BagToSet(participants) \ CascadeParts(eventId)
          |-> participants[x]]
  /\ ret' = NoRet
  /\ UNCHANGED <<users, nextId, pc, loc, hist, scanner>>

\* ---------------------------------------------------- registerForEvent ----
\* .from('registrations').eq('user_id', userId).eq('event_id', eventId)
ByUserAndEvent(userId, eventId) ==
  {r \in registrations : r.user_id = userId /\ r.event_id = eventId}

\* the row registerForEvent inserts
NewRegistration(id, userId, eventId) ==
  [id |-> id, user_id |-> userId, event_id |-> eventId,
   status |-> "registered", qr_payload |-> QrPayload(eventId, userId),
   check_in_time |-> NoTime]

\* first store call: select id ... .maybeSingle(); only `data` is read, the
\* error is dropped; `if (existing) return null`
registerCheck(p, userId, eventId, ok) ==
  /\ pc[p] = "idle"
  /\ LET res == MaybeSingle(ByUserAndEvent(userId, eventId), ok)
         existing == res.data
     IN  IF existing # {}
         THEN /\ ret' = Returned(p, "registerForEvent", <<userId, eventId>>,
                                 res.error, FALSE, "", {})
              /\ UNCHANGED <<pc, loc>>
         ELSE /\ pc' = [pc EXCEPT ![p] = "reg_insert"]
              /\ loc' = [loc EXCEPT ![p] =
                           [NoLoc EXCEPT !.userId = userId,
                                         !.eventId = eventId]]
              /\ ret' = NoRet
  /\ UNCHANGED <<users, events, registrations, participants, nextId, hist,
                 scanner>>

\* second store call: insert ... .select().single(); `if (error) throw error`
registerInsert(p, ok) ==
  /\ pc[p] = "reg_insert"
  /\ nextId.registrations <= MaxRegs
  /\ LET userId == loc[p].userId
         eventId == loc[p].eventId
         row == NewRegistration(nextId.registrations, userId, eventId)
         accepted == ok /\ RegFkOk(userId, eventId)
     IN  IF accepted
         THEN /\ registrations' = registrations \cup {row}
              /\ nextId' = [nextId EXCEPT !.registrations = @ + 1]
              /\ ret' = Returned(p, "registerForEvent", <<userId, eventId>>,
                                 FALSE, FALSE, "", {mapReg(row)})
         ELSE /\ ret' = Thrown(p, "registerForEvent", <<userId, eventId>>)
              /\ UNCHANGED <<registrations, nextId>>
  /\ pc' = [pc EXCEPT ![p] = "idle"]
  /\ loc' = [loc EXCEPT ![p] = NoLoc]
  /\ UNCHANGED <<users, events, participants, hist, scanner>>

\* --------------------------------------------------------- checkInUser ----
\* mutant: the .eq('qr_payload', ...) filter is left out
ByQrPayload_noFilter(qrPayload) == registrations

\* .from('registrations').eq('qr_payload', qrPayload)
ByQrPayload(qrPayload) ==
  {r \in registrations : r.qr_payload = qrPayload}

\* .from('registrations').eq('id', id)
ById(id) == {r \in registrations : r.id = id}

\* if (fetchError || !reg)
NotFound(res) == res.error \/ res.data = {}

\* mutant: the status is compared with a literal no row carries
AlreadyCheckedIn_typo(reg) == reg.status = "checked_in"

\* if (reg.status === 'checked-in')
AlreadyCheckedIn(reg) == reg.status = "checked-in"

\* mutant: the update writes nothing
CheckedIn_notWritten(row, now) == row

\* mutant: the update flips the status instead of setting it
CheckedIn_toggle(row, now) ==
  [row EXCEPT !.status = IF @ = "checked-in" THEN "registered"
                         ELSE "checked-in",
              !.check_in_time = now]

\* mutant: the update stamps the time and leaves the status
CheckedIn_timeOnly(row, now) == [row EXCEPT !.check_in_time = now]

\* mutant: the update sets the status and leaves the time
CheckedIn_noStamp(row, now) == [row EXCEPT !.status = "checked-in"]

\* .update({ status: 'checked-in', check_in_time: now })
CheckedIn(row, now) ==
  [row EXCEPT !.status = "checked-in", !.check_in_time = now]

\* the row checkInUser inserts into participants
ParticipantRow(reg, now) ==
  [registration_id |-> reg.id, user_id |-> reg.user_id,
   event_id |-> reg.event_id, check_in_time |-> now]

\* insert into participants
Inserted(bag, row) == bag (+) SetToBag({row})

\* first store call: select * ... .maybeSingle(), then the two early
\* returns; `now` is the calling client's new Date(), read before the update
\* is sent
checkInFetch(p, qrPayload, now, ok) ==
  /\ pc[p] = "idle"
  /\ LET res == MaybeSingle(ByQrPayload(qrPayload), ok)
         ids == {r.id : r \in ByQrPayload(qrPayload)}
     IN  IF NotFound(res)
         THEN /\ ret' = Returned(p, "checkInUser", qrPayload, res.error,
                                 FALSE, "Invalid registration code.", {})
              /\ hist' = Ended(hist, ids, res.error, FALSE)
              /\ UNCHANGED <<pc, loc>>
         ELSE LET reg == CHOOSE r \in res.data : TRUE
              IN  IF AlreadyCheckedIn(reg)
                  THEN /\ ret' = Returned(p, "checkInUser", qrPayload, FALSE,
                                          FALSE, "Already checked in!",
                                          {mapReg(reg)})
                       /\ hist' = Ended(hist, ids, FALSE, FALSE)
                       /\ UNCHANGED <<pc, loc>>
                  ELSE /\ pc' = [pc EXCEPT ![p] = "ci_update"]
                       /\ loc' = [loc EXCEPT ![p] =
                                    [NoLoc EXCEPT !.qrPayload = qrPayload,
                                                  !.reg = {reg},
                                                  !.now = now]]
                       /\ ret' = NoRet
                       /\ UNCHANGED hist
  /\ UNCHANGED <<users, events, registrations, participants, nextId, scanner>>

\* the row the running call of p fetched
TheReg(p) == CHOOSE r \in loc[p].reg : TRUE

\* mutant: the update is filtered by the event of the fetched row
UpdateMatches_byEvent(r, reg) == r.event_id = reg.event_id

\* .eq('id', reg.id) of the update
UpdateMatches(r, reg) == r.id = reg.id

\* second store call: update registrations ... where id = reg.id; an update
\* that matches no row reports no error
checkInUpdate(p, ok) ==
  /\ pc[p] = "ci_update"
  /\ LET reg == TheReg(p)
     IN  IF ok
         THEN /\ registrations' =
                   {IF UpdateMatches(r, reg) THEN CheckedIn(r, loc[p].now)
                    ELSE r : r \in registrations}
              /\ pc' = [pc EXCEPT ![p] = "ci_insert"]
              /\ ret' = NoRet
              /\ UNCHANGED <<loc, hist>>
         ELSE /\ ret' = Returned(p, "checkInUser", loc[p].qrPayload, TRUE,
                                 FALSE, "Check-in failed.", {})
              /\ hist' = Ended(hist, {reg.id}, TRUE, FALSE)
              /\ pc' = [pc EXCEPT ![p] = "idle"]
              /\ loc' = [loc EXCEPT ![p] = NoLoc]
              /\ UNCHANGED registrations
  /\ UNCHANGED <<users, events, participants, nextId, scanner>>

\* third store call: insert into participants; its result is not read
checkInInsert(p, ok) ==
  /\ pc[p] = "ci_insert"
  /\ LET reg == TheReg(p)
         accepted == ok /\ PartFkOk(reg)
     IN  /\ participants' =
              IF accepted
              THEN Inserted(participants, ParticipantRow(reg, loc[p].now))
              ELSE participants
         /\ loc' = [loc EXCEPT ![p].insOk = accepted]
         /\ hist' = Failed(hist, {reg.id}, ~accepted)
  /\ pc' = [pc EXCEPT ![p] = "ci_reread"]
  /\ ret' = NoRet
  /\ UNCHANGED <<users, events, registrations, nextId, scanner>>

\* fourth store call: select * ... eq id .single(); its error is not read
\* and mapReg(finalReg) throws a TypeError when finalReg is null
checkInReread(p, ok) ==
  /\ pc[p] = "ci_reread"
  /\ LET reg == TheReg(p)
         finalReg == Single(ById(reg.id), ok).data
     IN  IF finalReg = {}
         THEN /\ ret' = Thrown(p, "checkInUser", loc[p].qrPayload)
              /\ hist' = Ended(hist, {reg.id}, TRUE, FALSE)
         ELSE /\ ret' = Returned(p, "checkInUser", loc[p].qrPayload, FALSE,
                                 TRUE, "", {mapReg(r) : r \in finalReg})
              /\ hist' = Ended(hist, {reg.id}, FALSE, TRUE)
  /\ pc' = [pc EXCEPT ![p] = "idle"]
  /\ loc' = [loc EXCEPT ![p] = NoLoc]
  /\ UNCHANGED <<users, events, registrations, participants, nextId, scanner>>

\* ---------------------------------------------------------------- reads ----
\* `configured`: the module-level client `supabase` is not null
\* mutant: the list is returned whatever the query reported
ReadResult_ignoreError(configured, ok, rows) == rows

\* if (!supabase) return []; ... if (error) return []; return data.map(...)
ReadResult(configured, ok, rows) ==
  IF configured /\ ok THEN rows ELSE EmptyBag

\* a read: one select, nothing written
Read(p, op, arg, configured, ok, rows) ==
  /\ pc[p] = "idle"
  /\ ret' = Listed(p, op, arg, ~(configured /\ ok),
                   ReadResult(configured, ok, rows))
  /\ UNCHANGED <<users, events, registrations, participants, nextId,
                 pc, loc, hist, scanner>>

getAllUsers(p, configured, ok) ==
  Read(p, "getAllUsers", <<>>, configured, ok,
       SetToBag({mapUser(u) : u \in users}))

getPendingUsers(p, configured, ok) ==
  Read(p, "getPendingUsers", <<>>, configured, ok,
       SetToBag({mapUser(u) : u \in {x \in users : x.role = "organizer"
                                               /\ x.status = "pending"}}))

getEvents(p, configured, ok) ==
  Read(p, "getEvents", <<>>, configured, ok,
       SetToBag({mapEvent(e) : e \in events}))

getRegistrationsByUser(p, userId, configured, ok) ==
  Read(p, "getRegistrationsByUser", <<userId>>, configured, ok,
       SetToBag({mapReg(r) : r \in {x \in registrations :
                                      x.user_id = userId}}))

getRegistrationsByEvent(p, eventId, configured, ok) ==
  Read(p, "getRegistrationsByEvent", <<eventId>>, configured, ok,
       SetToBag({mapReg(r) : r \in {x \in registrations :
                                      x.event_id = eventId}}))

getAllParticipants(p, configured, ok) ==
  Read(p, "getAllParticipants", <<>>, configured, ok, participants)

\* ------------------------------------------------------ specifications ----
\* A request of a one-call operation that fails changes nothing: it is a
\* stuttering step.  The outcome `ok` of each store call of the two
\* multi-call operations is an input of its step.

\* a call starts only when no other call is in flight
Quiet == \A q \in Procs : pc[q] = "idle"

\* accounts are created and decided on
Accounts ==
  \/ \E m \in EmailInputs, i \in UniIdInputs, r \in RoleInputs :
        createUser(NewUser(m, i, r, "none"))
  \/ \E u \in UserIdInputs, s \in StatusInputs : updateUserStatus(u, s)

\* events are proposed, decided on and deleted
Events ==
  \/ \E evt \in EvtInputs : createEvent(evt)
  \/ \E e \in EventIdInputs : deleteEvent(e)

Decisions ==
  \E e \in EventIdInputs, s \in StatusInputs : updateEventStatus(e, s)

Steps ==
  \/ \E p \in Procs, ok \in BOOLEAN : registerInsert(p, ok)
  \/ \E p \in Procs, ok \in BOOLEAN : checkInUpdate(p, ok)
  \/ \E p \in Procs, ok \in BOOLEAN : checkInInsert(p, ok)
  \/ \E p \in Procs, ok \in BOOLEAN : checkInReread(p, ok)

Starts(callers) ==
  \/ \E p \in callers, u \in UserIdInputs, e \in EventIdInputs,
        ok \in BOOLEAN : registerCheck(p, u, e, ok)
  \/ \E p \in callers, q \in QrInputs, t \in Times, ok \in BOOLEAN :
        checkInFetch(p, q, t, ok)

\* calls that never overlap need one caller
Caller == CHOOSE p \in Procs : TRUE

\* registerForEvent and checkInUser calls overlap (a double click, two tabs,
\* two scanners) while events are created and deleted; the one account is
\* the seeded admin
Next == Events \/ Steps \/ Starts(Procs)

Spec == Init /\ [][Next]_vars

\* as Spec, but each registerForEvent and checkInUser call completes before
\* the next one starts
NextSeq == Events \/ Steps \/ (Quiet /\ Starts({Caller}))

SpecSeq == Init /\ [][NextSeq]_vars

\* every writing operation of DB, the calls one after another
Inits ==
  \/ \E ok \in BOOLEAN : Quiet /\ initCheck(Caller, ok)
  \/ \E ok \in BOOLEAN : initInsert(Caller, ok)

NextAll ==
  \/ Accounts \/ Events \/ Decisions \/ Steps \/ (Quiet /\ Starts({Caller}))
  \/ Inits

SpecAll == Init /\ [][NextAll]_vars

\* admins decide on accounts
Verdicts ==
  \E u \in UserIdInputs, s \in StatusInputs : updateUserStatus(u, s)

\* as Spec, with the admins' decisions on events and accounts going on while
\* registerForEvent and checkInUser calls overlap
NextOps == Next \/ Decisions \/ Verdicts

SpecOps == Init /\ [][NextOps]_vars

\* createUser called with every role and with a status in its input, and the
\* admins' decisions on the accounts
UserInputs ==
  {NewUser(m, i, r, s) : m \in EmailInputs \cup {"o@uni"},
                         i \in UniIdInputs \cup {"U-2"},
                         r \in Roles, s \in {"pending", "approved"}}

NextUsers == (\E user \in UserInputs : createUser(user)) \/ Verdicts

SpecUsers == Init /\ [][NextUsers]_vars

\* DB.init called on every mount of App, from several tabs at once, while
\* accounts are created and decided on
Mounts ==
  \/ \E p \in Procs, ok \in BOOLEAN : initCheck(p, ok)
  \/ \E p \in Procs, ok \in BOOLEAN : initInsert(p, ok)

NextMounts == Mounts \/ (\E user \in UserInputs : createUser(user)) \/ Verdicts

SpecMounts == Init /\ [][NextMounts]_vars

\* the dashboards' reads between the calls of SpecSeq and the sign-ups
Reads ==
  \/ \E c, ok \in BOOLEAN : getAllUsers(Caller, c, ok)
  \/ \E c, ok \in BOOLEAN : getPendingUsers(Caller, c, ok)
  \/ \E c, ok \in BOOLEAN : getEvents(Caller, c, ok)
  \/ \E u \in UserIdInputs, c, ok \in BOOLEAN :
        getRegistrationsByUser(Caller, u, c, ok)
  \/ \E e \in EventIdInputs, c, ok \in BOOLEAN :
        getRegistrationsByEvent(Caller, e, c, ok)
  \/ \E c, ok \in BOOLEAN : getAllParticipants(Caller, c, ok)

\* accounts are created
Arrivals ==
  \E m \in EmailInputs, i \in UniIdInputs, r \in RoleInputs :
     createUser(NewUser(m, i, r, "none"))

NextReads ==
  \/ Arrivals \/ Events \/ Steps \/ (Quiet /\ Starts({Caller}))
  \/ (Quiet /\ Reads)

SpecReads == Init /\ [][NextReads]_vars

\* ------------------------------------------------------- the dashboards ----
MaxAccounts == 3    \* accounts the sign-up form can have created, admin included

AppUserIds   == 1..MaxAccounts
AppEmails    == EmailInputs \cup {"o@uni"}
AppUniIds    == UniIdInputs \cup {"U-2"}
AppEvts      == [organizerId : AppUserIds, status : {"pending", "approved"},
                 maxParticipants : {MaxSeats}]

\* user.role of the session of userId: App renders AdminDashboard,
\* OrganizerDashboard or StudentDashboard by it
RoleOf(userId) ==
  IF \E u \in users : u.id = userId
  THEN (CHOOSE u \in users : u.id = userId).role
  ELSE "none"

\* LoginForm.sub turns away an organizer whose account is still 'pending'
CanLogIn(userId) ==
  \E u \in users :
     u.id = userId /\ ~(u.role = "organizer" /\ u.status = "pending")

\* StudentDashboard.refresh: evs.filter(e => e.status === 'approved')
VisibleToStudents(evs) == {e \in evs : e.status = "approved"}

\* CreateEventForm.sub of the OrganizerDashboard:
\* DB.createEvent({...form, ..., organizerId: user._id})
organizerProposes(userId, evt) ==
  /\ RoleOf(userId) = "organizer"
  /\ CanLogIn(userId)
  /\ evt.organizerId = userId
  /\ createEvent(evt)

\* Approve / Reject of the AdminDashboard.  The buttons are rendered for the
\* events that are 'pending' in the list the dashboard loaded at its last
\* refresh; a list loaded while the event was pending keeps offering them
\* whatever has been decided since, so every event ever created can be
\* decided on.
adminDecides(userId, eventId, status) ==
  /\ RoleOf(userId) = "admin"
  /\ eventId \in 1..(nextId.events - 1)
  /\ updateEventStatus(eventId, status)

\* mutant: the organizer's list is not filtered by organizerId
organizerDeletes_anyEvent(userId, eventId) ==
  /\ RoleOf(userId) = "organizer"
  /\ CanLogIn(userId)
  /\ eventId \in EventIds
  /\ deleteEvent(eventId)

\* the trash button of the OrganizerDashboard, whose list is
\* allE.filter(e => e.organizerId === user._id)
organizerDeletes(userId, eventId) ==
  /\ RoleOf(userId) = "organizer"
  /\ CanLogIn(userId)
  /\ \E e \in events : e.id = eventId /\ e.organizer_id = userId
  /\ deleteEvent(eventId)

\* the trash button of the AdminDashboard's event table, over every event
adminDeletes(userId, eventId) ==
  /\ RoleOf(userId) = "admin"
  /\ eventId \in EventIds
  /\ deleteEvent(eventId)

\* Verify of the AdminDashboard's staff queue, rendered for the accounts the
\* loaded list shows as organizers awaiting approval
adminVerifies(userId, staffId) ==
  /\ RoleOf(userId) = "admin"
  /\ RoleOf(staffId) = "organizer"
  /\ updateUserStatus(staffId, "approved")

SignUps ==
  \E m \in AppEmails, i \in AppUniIds, r \in RoleInputs :
     createUser(NewUser(m, i, r, "none"))

Proposals ==
  \E u \in AppUserIds, evt \in AppEvts : organizerProposes(u, evt)

Approvals ==
  \E u \in AppUserIds, e \in EventIdInputs, s \in StatusInputs :
     adminDecides(u, e, s)

Verifications ==
  \E u \in AppUserIds, t \in AppUserIds : adminVerifies(u, t)

Deletions ==
  \/ \E u \in AppUserIds, e \in EventIdInputs : organizerDeletes(u, e)
  \/ \E u \in AppUserIds, e \in EventIdInputs : adminDeletes(u, e)

\* what the sessions of the dashboards do to accounts and events
NextApp == SignUps \/ Verifications \/ Proposals \/ Approvals \/ Deletions

SpecApp == Init /\ [][NextApp]_vars

\* ------------------------------------------------------------ the forms ----
\* onLogin(u) of App: the session of u opens on the dashboard
OnLogin(op, arg, u) ==
  [Listed(Caller, op, arg, FALSE, SetToBag({u})) EXCEPT !.success = TRUE]

\* the form shows `message` and opens no session
Refused(op, arg, err, message) ==
  Returned(Caller, op, arg, err, FALSE, message, {})

\* LoginForm.sub: DB.findUserByEmail(email), which throws on a store error
\* and yields undefined when no row matches; pwOk: u.password === pw
loginSub(email, pwOk, ok) ==
  /\ LET res == MaybeSingle({u \in users : u.email = email}, ok)
         op  == "LoginForm.sub"
         arg == <<email>>
     IN  ret' =
           IF res.error THEN Refused(op, arg, TRUE, "Connection timed out.")
           ELSE IF res.data = {} \/ ~pwOk
           THEN Refused(op, arg, FALSE, "Invalid institutional credentials.")
           ELSE LET u == mapUser(CHOOSE d \in res.data : TRUE)
                IN  IF u.role = "organizer" /\ u.status = "pending"
                    THEN Refused(op, arg, FALSE,
                                 "Account pending faculty verification.")
                    ELSE OnLogin(op, arg, u)
  /\ UNCHANGED <<users, events, registrations, participants, nextId, pc,
                 loc, hist, scanner>>

\* RegisterForm.sub: DB.createUser(form), which throws when the insert
\* reports an error; filled: uniId and profilePhoto are given
registerSub(form, filled, ok) ==
  /\ LET accepted == filled /\ ok /\ UserAccepted(form)
         row == UserRow(form)
         op  == "RegisterForm.sub"
         arg == <<form.email, form.uniId>>
     IN  /\ users' = IF accepted THEN users \cup {row} ELSE users
         /\ nextId' = IF accepted THEN [nextId EXCEPT !.users = @ + 1]
                      ELSE nextId
         /\ ret' =
              IF ~filled
              THEN Refused(op, arg, FALSE, "University ID is required.")
              ELSE IF ~accepted
              THEN Refused(op, arg, TRUE,
                     "Registration failed. Email or Uni ID might already exist.")
              ELSE IF mapUser(row).role = "organizer"
              THEN Refused(op, arg, FALSE,
                     "Staff account creation successful. Awaiting Faculty Admin verification.")
              ELSE OnLogin(op, arg, mapUser(row))
  /\ UNCHANGED <<events, registrations, participants, pc, loc, hist, scanner>>

Forms ==
  \/ \E m \in AppEmails, pwOk, ok \in BOOLEAN : loginSub(m, pwOk, ok)
  \/ \E m \in AppEmails, i \in AppUniIds, r \in RoleInputs,
        filled, ok \in BOOLEAN :
        registerSub(NewUser(m, i, r, "none"), filled, ok)

\* the two forms and the admins' decisions on the accounts
NextForms == Forms \/ Verdicts

SpecForms == Init /\ [][NextForms]_vars

\* ------------------------------------------------- the check-in terminal ----
\* the browser of a student, whose calls run beside those of the terminal
Visitor == CHOOSE p \in Procs : p # Caller

\* the DB.checkInUser call of processCode has settled and the rest of
\* processCode is the next thing the terminal runs
Resuming ==
  scanner.busy /\ pc[Caller] = "idle" /\ ret.op = "checkInUser"

\* a step of the terminal that makes no store call
ScannerStep ==
  /\ ret' = NoRet
  /\ UNCHANGED <<users, events, registrations, participants, nextId, pc,
                 loc, hist>>

\* the operator opens the check-in terminal: CheckInScanner is mounted
openTerminal ==
  /\ ~scanner.open
  /\ scanner' = [NoScanner EXCEPT !.open = TRUE]
  /\ ScannerStep

\* onBack (Close, Return to Dashboard), between two scans
onBack ==
  /\ scanner.open /\ ~scanner.busy
  /\ scanner' = NoScanner
  /\ ScannerStep

\* the scan loop's useEffect on [active]: getUserMedia(...).then schedules
\* the first frame callback; granted: the camera stream is obtained
activateCamera(granted) ==
  /\ scanner.open /\ ~scanner.active /\ scanner.result = "none"
  /\ scanner' = [scanner EXCEPT !.active = TRUE, !.scanning = granted]
  /\ ScannerStep

\* Next Admission of the result view: setResult(null); setActive(true)
nextAdmission(granted) ==
  /\ scanner.open /\ scanner.result # "none"
  /\ scanner' = [scanner EXCEPT !.result = "none", !.active = TRUE,
                                !.scanning = granted]
  /\ ScannerStep

\* scan: jsQR decodes a code in the frame, `processCode(qr.data); return`:
\* no further frame callback is requested, processCode sets busy.  (A frame
\* without a code requests the next frame and changes nothing.)
scanDecodes(code) ==
  /\ scanner.open /\ scanner.active /\ scanner.scanning
  /\ scanner' = [scanner EXCEPT !.scanning = FALSE, !.busy = TRUE,
                                !.code = code]
  /\ ScannerStep

\* processCode: await DB.checkInUser(code), the request of its fetch
scannerCalls(now, ok) ==
  /\ scanner.busy /\ ret.op # "checkInUser"
  /\ checkInFetch(Caller, scanner.code, now, ok)

\* processCode after the await: setResult(res); setActive(false) when the
\* call resolved, alert('Check-in failed.') when it rejected; then
\* setBusy(false).  Leaving `active` makes the effect's cleanup run.
processCodeResumes ==
  /\ Resuming
  /\ scanner' =
       IF ret.outcome = "return"
       THEN [scanner EXCEPT !.busy = FALSE, !.active = FALSE, !.code = <<>>,
                            !.result = IF ret.success THEN "verified"
                                       ELSE "denied"]
       ELSE [scanner EXCEPT !.busy = FALSE, !.code = <<>>]
  /\ ScannerStep

\* students register from their own browsers
Visits ==
  \E u \in UserIdInputs, e \in EventIdInputs, ok \in BOOLEAN :
     registerCheck(Visitor, u, e, ok)

Operator ==
  \/ openTerminal
  \/ onBack
  \/ \E granted \in BOOLEAN : activateCamera(granted)
  \/ \E granted \in BOOLEAN : nextAdmission(granted)

Frames == \E code \in QrInputs : scanDecodes(code)

Requests == \E t \in Times, ok \in BOOLEAN : scannerCalls(t, ok)

\* the store answers the request the checkInUser call of the terminal
\* is waiting for
Answers ==
  \/ \E ok \in BOOLEAN : checkInUpdate(Caller, ok)
  \/ \E ok \in BOOLEAN : checkInInsert(Caller, ok)
  \/ \E ok \in BOOLEAN : checkInReread(Caller, ok)

\* one check-in terminal, events created and deleted and students
\* registering meanwhile; the rest of processCode runs as soon as its call
\* has settled
NextScan ==
  \/ ~Resuming /\ (Events \/ Visits \/ Steps)
  \/ Operator \/ Frames \/ Requests
  \/ processCodeResumes

\* the store answers every request, the browser runs every scheduled
\* callback; the operator and the students need not act
SpecScan ==
  /\ Init /\ [][NextScan]_vars
  /\ WF_vars(Requests) /\ WF_vars(Answers) /\ WF_vars(processCodeResumes)

\* =================================================================
\* Properties
\* =================================================================

\* participant rows written for registration id, in a participants table
AuditRows(bag, id) ==
  BagCardinality([x \in {y \in BagToSet(bag) : y.registration_id = id}
                    |-> bag[x]])

\* the step starts a checkInUser(q) call of p: it runs the lookup and either
\* returns at once or goes on to the update
CallsCheckIn(p, q) ==
  /\ pc[p] = "idle"
  /\ \/ /\ pc'[p] = "idle"
        /\ ret'.op = "checkInUser" /\ ret'.proc = p /\ ret'.arg = q
     \/ /\ pc'[p] = "ci_update"
        /\ loc'[p].qrPayload = q

\* C1: in every reachable state, overlapping registerForEvent calls
\* included, at most one Registration exists per (user_id, event_id) pair.
OneRegistrationPerPair ==
  \A r1, r2 \in registrations :
     (r1.user_id = r2.user_id /\ r1.event_id = r2.event_id) => r1 = r2

\* C2: across any execution, overlapping checkInUser calls with the same
\* qrPayload included, at most one call returns success:true for a given
\* Registration.
CheckInSucceedsOnce == \A i \in DOMAIN hist : hist[i].oks <= 1

\* C3: calls of checkInUser that do not overlap, with the qrPayload of an
\* existing Registration and without a store call that reports an error:
\* the first one returns success:true, every later one returns
\* success:false with 'Already checked in!'.
FirstCheckInSucceedsLaterRejected ==
  [][\A r \in registrations :
       (/\ ret'.op = "checkInUser"
        /\ ret'.arg = r.qr_payload
        /\ ~hist'[r.id].failed)
       => /\ ret'.outcome = "return"
          /\ ~hist[r.id].done => ret'.success
          /\ hist[r.id].done =>
               ~ret'.success /\ ret'.message = "Already checked in!"]_vars

\* C3 witness: a later call was turned away after the first had succeeded,
\* no store call having failed.
SecondCheckInTurnedAway ==
  /\ ret.op = "checkInUser"
  /\ ret.message = "Already checked in!"
  /\ \E r \in registrations :
        /\ r.qr_payload = ret.arg
        /\ hist[r.id].oks = 1
        /\ ~hist[r.id].failed

\* C4: registerForEvent calls that do not overlap leave at most one
\* Registration per (user_id, event_id) pair.
SeqOneRegistrationPerPair ==
  Cardinality({<<r.user_id, r.event_id>> : r \in registrations})
    = Cardinality(registrations)

\* C5: checkInUser with a string that is no stored Registration's qrPayload
\* returns {success:false, 'Invalid registration code.'} and leaves the
\* registrations and the participants unchanged.
UnknownCodeRejected ==
  [][\A p \in Procs, q \in QrInputs :
       (CallsCheckIn(p, q) /\ \A r \in registrations : r.qr_payload # q)
       => /\ ret'.outcome = "return"
          /\ ~ret'.success
          /\ ret'.message = "Invalid registration code."
          /\ ret'.registration = {}
          /\ registrations' = registrations
          /\ participants' = participants]_vars

\* C5 witness: a code no stored Registration carries was rejected while
\* a Registration was stored.
UnknownCodeWasRejected ==
  /\ ret.op = "checkInUser"
  /\ ret.message = "Invalid registration code."
  /\ ~ret.err
  /\ registrations # {}
  /\ \A r \in registrations : r.qr_payload # ret.arg

CheckInCompletes ==
  [][\A p \in Procs :
       /\ (pc[p] = "ci_update" /\ pc'[p] = "ci_insert")
          => /\ loc[p].now \in Times
             /\ \A r \in registrations :
                  r.id \in {x.id : x \in loc[p].reg}
                  => \E r2 \in registrations' :
                        /\ r2.id = r.id
                        /\ r2.status = "checked-in"
                        /\ r2.check_in_time = loc[p].now
                        /\ r2.qr_payload = r.qr_payload
       /\ (pc[p] = "ci_insert" /\ pc'[p] = "ci_reread" /\ loc'[p].insOk)
          => /\ BagCardinality(participants')
                  = BagCardinality(participants) + 1
             /\ \A x \in loc[p].reg :
                  /\ AuditRows(participants', x.id)
                       = AuditRows(participants, x.id) + 1
                  /\ \E y \in BagToSet(participants') :
                        /\ y.registration_id = x.id
                        /\ y.user_id = x.user_id
                        /\ y.event_id = x.event_id
                        /\ y.check_in_time = loc[p].now
       /\ (/\ pc[p] = "ci_reread" /\ pc'[p] = "idle"
           /\ loc[p].insOk /\ ret'.outcome = "return")
          => /\ ret'.success
             /\ \A x \in loc[p].reg :
                  \E r \in registrations' :
                     /\ r.id = x.id
                     /\ r.status = "checked-in"
                     /\ r.check_in_time \in Times
                     /\ ret'.registration = {mapReg(r)}
                     /\ AuditRows(participants', r.id) >= 1]_vars

\* C7 witness: a call returned success:true with the Registration checked
\* in, stamped, and one Participant row written for it.
CheckInCompleted ==
  /\ ret.op = "checkInUser"
  /\ ret.success
  /\ \E x \in ret.registration :
        /\ x.status = "checked-in"
        /\ x.checkInTime \in Times
        /\ AuditRows(participants, x._id) = 1

\* C8 as stated: a Participant row, once inserted, is never modified and
\* never removed by any later operation.
ParticipantsNeverRemoved ==
  [][\A x \in BagToSet(participants) :
       CopiesIn(x, participants') >= CopiesIn(x, participants)]_vars

\* C8 as amended: a Participant row is never modified, and it is removed
\* only by the deleteEvent that deletes its event (the cascade).
ParticipantsRemovedOnlyWithEvent ==
  [][\A x \in BagToSet(participants) :
       \/ CopiesIn(x, participants') >= CopiesIn(x, participants)
       \/ /\ \E e \in events : e.id = x.event_id
          /\ \A e \in events' : e.id # x.event_id]_vars

\* C8 witness: a check-in whose store calls all succeeded wrote its
\* Participant row, and the deletion of the event has removed it.
ParticipantRemovedWithEvent ==
  /\ events = {}
  /\ participants = EmptyBag
  /\ \E i \in DOMAIN hist : hist[i].oks = 1 /\ ~hist[i].failed

\* C9: in every reachable state, overlapping checkInUser calls on one
\* qrPayload included, each Registration has at most one Participant row.
OneParticipantPerRegistration ==
  \A r \in registrations : AuditRows(participants, r.id) <= 1

\* C10: if the Participant insert fails after the status update succeeded,
\* the call still returns success:true and the Registration stays
\* 'checked-in' with no Participant row; no later operation adds the row.
AuditGapStillSucceeds ==
  [][/\ \A p \in Procs :
          (pc[p] = "ci_reread" /\ pc'[p] = "idle" /\ ~loc[p].insOk)
          => /\ ret'.outcome = "return"
             /\ ret'.success
             /\ \A x \in loc[p].reg, r \in registrations' :
                  r.id = x.id
                  => /\ r.status = "checked-in"
                     /\ AuditRows(participants', r.id) = 0
     /\ \A r \in registrations :
          (/\ r.status = "checked-in"
           /\ AuditRows(participants, r.id) = 0
           /\ \A p \in Procs : pc[p] # "ci_insert")
          => AuditRows(participants', r.id) = 0]_vars

\* C11: a Registration's status is always 'registered' or 'checked-in', and
\* once it is 'checked-in' no step of registerForEvent, checkInUser,
\* updateEventStatus or updateUserStatus makes it 'registered' again.
StatusNeverReverts ==
  [][/\ \A r2 \in registrations' :
          r2.status \in {"registered", "checked-in"}
     /\ \A r \in registrations, r2 \in registrations' :
          (r2.id = r.id /\ r.status = "checked-in")
          => r2.status = "checked-in"]_vars

\* C11 witness: a registerForEvent call for the pair of a checked-in
\* Registration has returned and the Registration is still checked in.
StillCheckedInAfterRegister ==
  /\ ret.op = "registerForEvent"
  /\ ret.outcome = "return"
  /\ \E r \in registrations :
        /\ r.status = "checked-in"
        /\ ret.arg = <<r.user_id, r.event_id>>
        /\ hist[r.id].oks >= 1

\* C12: every Registration that registerForEvent inserts has status
\* 'registered', no check_in_time and the qrPayload eventId ':' userId of its
\* own event_id and user_id, and no step changes a stored qrPayload.
CreatedRegisteredWithOwnPayload ==
  [][/\ \A r2 \in registrations' :
          (\A r \in registrations : r.id # r2.id)
          => /\ r2.status = "registered"
             /\ r2.check_in_time = NoTime
             /\ r2.qr_payload = <<r2.event_id, ":", r2.user_id>>
     /\ \A r \in registrations, r2 \in registrations' :
          r2.id = r.id
          => /\ r2.qr_payload = r.qr_payload
             /\ r2.user_id = r.user_id
             /\ r2.event_id = r.event_id]_vars

\* C12 witness: registerForEvent has just returned the Registration it
\* inserted, and the stored row carries the payload of its own pair.
RegistrationCreated ==
  /\ ret.op = "registerForEvent"
  /\ \E x \in ret.registration, r \in registrations :
        /\ r.id = x._id
        /\ x.status = "registered"
        /\ x.checkInTime = NoTime
        /\ r.qr_payload = <<ret.arg[2], ":", ret.arg[1]>>

\* C13: every status change of an Event is a transition from 'pending' to
\* 'approved' or to 'rejected'; a decided Event never changes status again,
\* also when admins act on lists loaded before another decision.
EventDecidedOnce ==
  [][\A e \in events, e2 \in events' :
       (e2.id = e.id /\ e2.status # e.status)
       => /\ e.status = "pending"
          /\ e2.status \in {"approved", "rejected"}]_vars

\* C14: createEvent stores the new Event with status 'pending' whatever the
\* caller supplies, and an Event becomes visible to students as 'approved'
\* only by a step updateEventStatus(id, 'approved').
CreatedPendingUntilApproved ==
  [][/\ \A e2 \in events' :
          (\A e \in events : e.id # e2.id) => e2.status = "pending"
     /\ \A e2 \in VisibleToStudents(events') :
          (\A e \in VisibleToStudents(events) : e.id # e2.id)
          => updateEventStatus(e2.id, "approved")]_vars

\* C14 witness: a proposal is stored as 'pending' and no student sees it.
ProposalAwaitsDecision ==
  /\ \E e \in events : e.status = "pending"
  /\ VisibleToStudents(events) = {}

\* C15 as stated: every deleteEvent call the application makes is for an
\* event whose organizerId is the id of the acting user.
DeletedOnlyByOwner ==
  [][\A u \in AppUserIds, e \in events :
       (organizerDeletes(u, e.id) \/ adminDeletes(u, e.id))
       => e.organizer_id = u]_vars

\* C15 as amended: an organizer's dashboard deletes only events that
\* organizer owns; the only other deleteEvent call is the admin dashboard's,
\* made by a user of role 'admin', for any event.
DeletedByOwnerOrAdmin ==
  [][\A u \in AppUserIds, e \in events :
       /\ organizerDeletes(u, e.id) => e.organizer_id = u
       /\ adminDeletes(u, e.id)
            => \E x \in users : x.id = u /\ x.role = "admin"]_vars

\* C15 witness: an organizer's proposal has been deleted while a second
\* organizer holds an approved account.
ProposalDeleted ==
  /\ events = {}
  /\ nextId.events > 1
  /\ Cardinality({x \in users : x.role = "organizer"
                                 /\ x.status = "approved"}) = 2

\* C16: in every reachable state every Registration and every Participant
\* row refers to an Event that exists: deleteEvent takes the event's rows
\* with it and no Registration is inserted for a missing event.
RowsReferToEvents ==
  /\ \A r \in registrations : \E e \in events : e.id = r.event_id
  /\ \A x \in BagToSet(participants) :
        /\ \E e \in events : e.id = x.event_id
        /\ \E r \in registrations : r.id = x.registration_id

\* C16 witness: an event that had a Registration has been deleted, the
\* Registration went with it, and a registerForEvent call for the missing
\* event was refused.
RegistrationForDeletedEventRefused ==
  /\ ret.op = "registerForEvent"
  /\ ret.outcome = "throw"
  /\ events = {}
  /\ registrations = {}
  /\ nextId.events > 1
  /\ nextId.registrations > 1
  /\ ret.arg[2] \in 1..(nextId.events - 1)

\* C17: createUser stores status 'pending' when the role is 'organizer' and
\* 'approved' for every other role, whatever status its input carries.
NewUserStatusByRole ==
  [][\A u2 \in users' :
       (\A u \in users : u.id # u2.id)
       => /\ u2.role = "organizer" => u2.status = "pending"
          /\ u2.role # "organizer" => u2.status = "approved"]_vars

\* C17 witness: an organizer account awaits approval next to an account of
\* another role that createUser stored as 'approved'.
OrganizerPendingOthersApproved ==
  /\ \E u \in users : u.role = "organizer" /\ u.status = "pending"
  /\ \E u \in users : u.id > 1 /\ u.role # "organizer"
                                /\ u.status = "approved"

\* C18: no step removes a User row, and an existing User changes only by its
\* status, through updateUserStatus: createUser, init, registerForEvent,
\* checkInUser, createEvent, updateEventStatus and deleteEvent leave every
\* existing User as it is.
UsersKeptAndChangedOnlyByVerdict ==
  [][\A u \in users :
       /\ \E u2 \in users' : u2.id = u.id
       /\ \A u2 \in users' :
            u2.id = u.id
            => \/ u2 = u
               \/ \E s \in StatusInputs :
                     /\ updateUserStatus(u.id, s)
                     /\ u2 = [u EXCEPT !.status = s]]_vars

\* C18 witness: the admin's account had been rejected, an init call went as
\* far as its insert, and the account is still there, still rejected.
InitLeftRejectedAdmin ==
  /\ ret.op = "init"
  /\ ret.err
  /\ \E u \in users : u.email = AdminEmail /\ u.status = "rejected"

\* C19: every read operation returns an empty list when the database is not
\* configured or the query reports an error, never throws, and leaves the
\* store unchanged.
ReadsFailEmpty ==
  [][ret'.op \in {"getAllUsers", "getPendingUsers", "getEvents",
                  "getRegistrationsByUser", "getRegistrationsByEvent",
                  "getAllParticipants"}
       => /\ ret'.outcome = "return"
          /\ ret'.err => ret'.rows = EmptyBag
          /\ <<users, events, registrations, participants>>'
               = <<users, events, registrations, participants>>]_vars

\* C19 witness: getAllParticipants came back empty from a failed query
\* while the participants table held a row.
FailedReadCameBackEmpty ==
  /\ ret.op = "getAllParticipants"
  /\ ret.err
  /\ ret.rows = EmptyBag
  /\ participants # EmptyBag

\* C20: in every reachable state, the states between the steps of a running
\* checkInUser included, every Participant row refers to a stored
\* Registration whose status is 'checked-in'.
ParticipantsOfCheckedIn ==
  \A x \in BagToSet(participants) :
     \E r \in registrations :
        r.id = x.registration_id /\ r.status = "checked-in"

\* C20 witness: a checkInUser call has written its Participant row and has
\* not yet re-read the Registration.
AuditRowWrittenMidCall ==
  \E p \in Procs :
     /\ pc[p] = "ci_reread"
     /\ loc[p].insOk
     /\ \E x \in BagToSet(participants), r \in loc[p].reg :
           x.registration_id = r.id

\* the step starts a registerForEvent(userId, eventId) call of p: it runs the
\* existence select and either returns at once or goes on to the insert
CallsRegister(p, userId, eventId) ==
  /\ pc[p] = "idle"
  /\ \/ /\ pc'[p] = "idle"
        /\ ret'.op = "registerForEvent" /\ ret'.proc = p
        /\ ret'.arg = <<userId, eventId>>
     \/ /\ pc'[p] = "reg_insert"
        /\ loc'[p].userId = userId /\ loc'[p].eventId = eventId

\* C21: registerForEvent for a pair that already has a Registration returns
\* null at once and leaves the registrations as they are, so that a second
\* call in a row stores nothing more than the first.
RegisterAgainReturnsNull ==
  [][\A p \in Procs, r \in registrations :
       CallsRegister(p, r.user_id, r.event_id)
       => /\ pc'[p] = "idle"
          /\ ret'.outcome = "return"
          /\ ret'.registration = {}
          /\ registrations' = registrations]_vars

\* C22: a checkInUser call with the qrPayload of a stored Registration in
\* status 'registered', whose lookup the store answers without a failure,
\* is not rejected as 'Invalid registration code.' and goes on to check the
\* Registration in, also when two Registrations hold that qrPayload.
StoredCodeNeverInvalid ==
  [][\A p \in Procs, r \in registrations, t \in Times :
       (r.status = "registered" /\ checkInFetch(p, r.qr_payload, t, TRUE))
       => /\ ret'.message # "Invalid registration code."
          /\ pc'[p] = "ci_update"]_vars

\* C23: a session opened by the login form or by the registration form for
\* an organizer is the session of an organizer whose account is 'approved'
OrganizerSessionsApproved ==
  (ret.op \in {"LoginForm.sub", "RegisterForm.sub"} /\ ret.success)
  => \A u \in BagToSet(ret.rows) :
        u.role = "organizer" => u.status = "approved"

\* the form's email or university id is held by a stored User
Held(form) ==
  \E u \in users : u.email = form.email \/ u.uni_id = form.uniId

\* C24: a registration form submitted with an email or a university id that
\* a stored User holds gets an error from createUser, leaves the users as
\* they were and opens no session
TakenSignUpRefused ==
  [][\A m \in AppEmails, i \in AppUniIds, r \in RoleInputs, ok \in BOOLEAN :
       LET form == NewUser(m, i, r, "none")
       IN  (Held(form) /\ registerSub(form, TRUE, ok))
           => /\ ret'.err
              /\ users' = users
              /\ ~ret'.success
              /\ ret'.rows = EmptyBag]_vars

\* C24 witness: a form with a fresh email and a university id already held
\* has been turned away
TakenUniIdTurnedAway ==
  /\ ret.op = "RegisterForm.sub"
  /\ ret.err
  /\ \E u \in users : u.uni_id = ret.arg[2]
  /\ \A u \in users : u.email # ret.arg[1]

\* C25: every checkInUser call resolves with a result object and never
\* rejects, also when the event of its Registration is deleted between its
\* fetch and its re-read
CheckInNeverRejects ==
  ret.op = "checkInUser" => ret.outcome = "return"

\* C26: once processCode has been called with a decoded code, the terminal
\* eventually shows a result or has a frame callback scheduled again, unless
\* the operator has left it
ScanEndsInResultOrScanning ==
  scanner.busy
    ~> (scanner.result # "none" \/ scanner.scanning \/ ~scanner.open)

\* C27: the Registrations of an Event are never more than its
\* maxParticipants; counted here by the users they belong to, which are never
\* more than the rows, so that two rows of one user do not count twice
WithinCapacity ==
  \A e \in events :
     Cardinality({r.user_id : r \in {x \in registrations : x.event_id = e.id}})
       <= e.max_participants

\* C28: a Registration has a check_in_time exactly when its status is
\* 'checked-in', and every Participant row written for it carries that same
\* check_in_time
CheckInTimesAgree ==
  \A r \in registrations :
     /\ (r.check_in_time # NoTime) <=> (r.status = "checked-in")
     /\ \A x \in BagToSet(participants) :
          x.registration_id = r.id => x.check_in_time = r.check_in_time

\* the step is a store call of a DB.init call of p
InitStep(p) ==
  \/ pc[p] = "idle" /\ pc'[p] = "init_insert"
  \/ pc[p] = "init_insert" /\ pc'[p] = "idle"
  \/ ret'.op = "init" /\ ret'.proc = p

\* C29: whatever DB.init calls have run, alone or overlapping, exactly one
\* User has the email 'admin@gmail.com', and no step of an init call changes
\* or removes a User that exists
OneAdminKept ==
  /\ [](Cardinality({u \in users : u.email = AdminEmail}) = 1)
  /\ [][\A p \in Procs : InitStep(p) => \A u \in users : u \in users']_vars

\* C29 witness: the insert of one init call has been refused while the
\* insert of an overlapping init call is still to come
SeedRefusedWhileOtherPending ==
  /\ ret.op = "init" /\ ret.err
  /\ \E p \in Procs : p # ret.proc /\ pc[p] = "init_insert"

\* the step is a store call of a checkInUser(q) call of p
CheckInStep(p, q) ==
  \/ CallsCheckIn(p, q)
  \/ /\ pc[p] \in {"ci_update", "ci_insert", "ci_reread"}
     /\ pc'[p] # pc[p]
     /\ loc[p].qrPayload = q

\* C30: a checkInUser(q) call leaves every User, every Event and every
\* Registration with another qrPayload as they were, changes nothing but
\* status and check_in_time of a Registration with qrPayload q, and adds
\* Participant rows only for a Registration with qrPayload q
CheckInTouchesOnlyItsRegistration ==
  [][\A p \in Procs, q \in QrInputs :
       CheckInStep(p, q)
       => /\ users' = users /\ events' = events
          /\ {r.id : r \in registrations'} = {r.id : r \in registrations}
          /\ \A r \in registrations :
               \/ r \in registrations'
               \/ /\ r.qr_payload = q
                  /\ \E n \in registrations' :
                       n = [r EXCEPT !.status = n.status,
                                     !.check_in_time = n.check_in_time]
          /\ \A x \in BagToSet(participants') :
               \/ CopiesIn(x, participants') = CopiesIn(x, participants)
               \/ /\ CopiesIn(x, participants') > CopiesIn(x, participants)
                  /\ \E r \in registrations :
                       r.id = x.registration_id /\ r.qr_payload = q
          /\ \A x \in BagToSet(participants) :
               CopiesIn(x, participants') >= CopiesIn(x, participants)]_vars

\* C30 witness: a checkInUser call has checked one Registration in and
\* written its Participant row while a Registration with another qrPayload
\* is stored, still 'registered'
CheckedInBesideAnother ==
  \E r, o \in registrations :
     /\ r.status = "checked-in" /\ AuditRows(participants, r.id) > 0
     /\ o.qr_payload # r.qr_payload /\ o.status = "registered"

====
